---- MODULE Spec2Model ----
(***************************************************************************)
(* State-machine model of the user service in src/src/main.rs: the three  *)
(* repository operations (db::add_user, db::get_users,                     *)
(* db::get_user_by_id), the three handlers that borrow a pooled connection *)
(* and call them, and MyError::error_response.  Every await point of a     *)
(* handler (pool.get, client.prepare, client.query) is one step; what the  *)
(* backend answers at a step is an input drawn at that step.  A panic      *)
(* (unwrap / expect) ends the request task without a response.             *)
(***************************************************************************)
EXTENDS Integers, Sequences, FiniteSets

VARIABLES
    store,      \* the table testing.users, rows in stored order
    next_id,    \* the table's serial: the identifier the next insert gets
    created,    \* history: {[id, user]} for every row a create inserted
    max_size,   \* the pool's capacity, read from the environment at startup
    in_use,     \* connections currently borrowed from the pool
    pc,         \* per request task: the await point it is suspended at
    kind,       \* per request task: the handler it runs
    arg,        \* per request task: its decoded input (body / path segment)
    out         \* what the last step put on the wire: the outcome of the
                \* request that ended in it, NoResponse when none did

vars == <<store, next_id, created, max_size, in_use, pc, kind, arg, out>>

----------------------------------------------------------------------------
\* Bounds of the model.

NumReq == 2         \* request tasks that can be in flight together
MaxRows == 2        \* rows the table can hold
MaxPoolSize == 2    \* largest pool capacity the environment configures

Reqs == 1..NumReq
UserIds == 1..(MaxRows + 1)

NULL == "NULL"

\* models::User
Fields == {"email", "first_name", "last_name", "username"}

\* Decoded JSON bodies of POST /users.
Payloads ==
    { [email |-> "a", first_name |-> "b", last_name |-> "c", username |-> "d"],
      [email |-> "b", first_name |-> "a", last_name |-> "a", username |-> "c"] }

NoUser == [email |-> "", first_name |-> "", last_name |-> "", username |-> ""]
NoArg == [user |-> NoUser, id |-> 0]

\* Rows another client of the database wrote: a nullable column left NULL.
ExternalRows ==
    { [email |-> "c", first_name |-> NULL, last_name |-> "d", username |-> "a"] }

----------------------------------------------------------------------------
\* Record model.

\* User::sql_table_fields(): the struct's fields in declaration order.
TableFields == <<"email", "first_name", "last_name", "username">>

\* User::from_row_ref succeeds: every column is there with a String in it.
RowMaps(cols) == \A f \in Fields : cols[f] # NULL

\* User::from_row_ref: lookup of each field by column name.
FromRowRef(cols) ==
    [email |-> cols["email"], first_name |-> cols["first_name"],
     last_name |-> cols["last_name"], username |-> cols["username"]]

\* .iter().map(|row| User::from_row_ref(row).unwrap()).collect::<Vec<User>>()
MapRows(rows) == [i \in 1..Len(rows) |-> FromRowRef(rows[i])]

\* the unwrap in the closure panics on some row
MapPanics(rows) == \E i \in 1..Len(rows) : ~RowMaps(rows[i])

\* A Vec::pop that takes the front element instead.
PopFront(v) == IF Len(v) = 0 THEN <<>> ELSE <<v[1]>>

\* Vec::pop as an Option: the last element, or nothing.
Pop(v) == IF Len(v) = 0 THEN <<>> ELSE <<v[Len(v)]>>

----------------------------------------------------------------------------
\* The statements and what the database does with them.

IndexOf(seq, x) == CHOOSE i \in 1..Len(seq) : seq[i] = x

\* The parameter list with first_name and last_name exchanged.
AddUserParamsSwapped(user_info) ==
    <<user_info.email, user_info.last_name, user_info.first_name,
      user_info.username>>

\* db::add_user: the parameter list bound to $1..$4.
AddUserParams(user_info) ==
    <<user_info.email, user_info.first_name, user_info.last_name,
      user_info.username>>

\* sql/add_user.sql: INSERT INTO testing.users(<columns>) VALUES ($1..$4)
InsertColumns == TableFields

\* The row an INSERT stores: column InsertColumns[i] gets parameter i.
InsertedRow(id, params) ==
    [id |-> id,
     cols |-> [f \in Fields |-> params[IndexOf(InsertColumns, f)]]]

\* ... RETURNING $table_fields: the inserted row's columns.
Returning(row) == <<row.cols>>

\* sql/get_users.sql: SELECT $table_fields FROM testing.users
SelectAll(tbl) == [i \in 1..Len(tbl) |-> tbl[i].cols]

\* A SELECT whose WHERE clause is lost.
SelectByIdUnfiltered(tbl, user_id) == SelectAll(tbl)

\* SELECT $table_fields FROM testing.users WHERE id = $1
SelectById(tbl, user_id) ==
    SelectAll(SelectSeq(tbl, LAMBDA row : row.id = user_id))

----------------------------------------------------------------------------
\* Results of the repository operations, as seen by the handler:
\* Ok(users), Err(err), or a panic inside the repository call.

RepoOk(users) == [tag |-> "Ok", err |-> "", users |-> users]
RepoErr(e) == [tag |-> "Err", err |-> e, users |-> <<>>]
RepoPanic == [tag |-> "Panic", err |-> "", users |-> <<>>]

\* db::add_user after the query returned its rows.
db_add_user(rows) ==
    IF MapPanics(rows) THEN RepoPanic
    ELSE LET p == Pop(MapRows(rows)) IN
         IF p = <<>> THEN RepoErr("NotFound") ELSE RepoOk(p)

\* A get_users written like the other two operations: pop, then ok_or.
db_get_users_ok_or(rows) ==
    IF MapPanics(rows) THEN RepoPanic
    ELSE LET p == Pop(MapRows(rows)) IN
         IF p = <<>> THEN RepoErr("NotFound") ELSE RepoOk(MapRows(rows))

\* db::get_users after the query returned its rows.
db_get_users(rows) ==
    IF MapPanics(rows) THEN RepoPanic ELSE RepoOk(MapRows(rows))

\* A get_user_by_id that reports an empty result set as a query failure.
db_get_user_by_id_empty_is_pgerror(rows) ==
    IF MapPanics(rows) THEN RepoPanic
    ELSE LET p == Pop(MapRows(rows)) IN
         IF p = <<>> THEN RepoErr("PGError") ELSE RepoOk(p)

\* db::get_user_by_id after the query returned its rows.
db_get_user_by_id(rows) ==
    IF MapPanics(rows) THEN RepoPanic
    ELSE LET p == Pop(MapRows(rows)) IN
         IF p = <<>> THEN RepoErr("NotFound") ELSE RepoOk(p)

----------------------------------------------------------------------------
\* Responses.  status 0 with err "panic": the task ended without a response.

Response(op, outcome, status, body, err, items) ==
    [op |-> op, outcome |-> outcome, status |-> status, body |-> body,
     err |-> err, items |-> items]

NoResponse == Response("", "", 0, "none", "", <<>>)

\* MyError::error_response
error_response(op, outcome, err) ==
    CASE err = "NotFound" -> Response(op, outcome, 404, "empty", err, <<>>)
      [] err = "PoolError" -> Response(op, outcome, 500, "text", err, <<>>)
      [] OTHER -> Response(op, outcome, 500, "empty", err, <<>>)

Aborted(op, outcome) == Response(op, outcome, 0, "none", "panic", <<>>)

\* handlers::add_user from the repository's result: .expect, then Ok().json
handlers_add_user(outcome, res) ==
    IF res.tag = "Ok"
    THEN Response("add_user", outcome, 200, "object", "", res.users)
    ELSE Aborted("add_user", outcome)

\* handlers::get_users from the repository's result: ?, then Ok().json
handlers_get_users(outcome, res) ==
    CASE res.tag = "Ok" ->
            Response("get_users", outcome, 200, "array", "", res.users)
      [] res.tag = "Err" -> error_response("get_users", outcome, res.err)
      [] OTHER -> Aborted("get_users", outcome)

\* handlers::get_user_by_id from the repository's result: ?, then Ok().json
handlers_get_user_by_id(outcome, res) ==
    CASE res.tag = "Ok" ->
            Response("get_user_by_id", outcome, 200, "object", "", res.users)
      [] res.tag = "Err" -> error_response("get_user_by_id", outcome, res.err)
      [] OTHER -> Aborted("get_user_by_id", outcome)

\* What the repository call ended on: the mapping, or the query itself.
OutcomeOf(rows) == IF MapPanics(rows) THEN "mapping_err" ELSE "ok"

----------------------------------------------------------------------------
\* The pool's account of a connection whose holder goes out of scope.

DropClient(n) == n - 1

\* A panic that does not unwind through the holder: the connection leaks.
PanicLeak(n) == n

\* The handler returns (Ok or Err): `client` is dropped.
ScopeExit(n) == DropClient(n)

\* The handler panics: unwinding drops `client`.
PanicUnwind(n) == DropClient(n)

Released(resp, n) ==
    IF resp.status = 0 THEN PanicUnwind(n) ELSE ScopeExit(n)

----------------------------------------------------------------------------
Init ==
    /\ store = <<>>
    /\ next_id = 1
    /\ created = {}
    /\ max_size \in 1..MaxPoolSize
    /\ in_use = 0
    /\ pc = [r \in Reqs |-> "idle"]
    /\ kind = [r \in Reqs |-> ""]
    /\ arg = [r \in Reqs |-> NoArg]
    /\ out = NoResponse

\* The request task ends: its locals are gone.
End(r) ==
    /\ pc' = [pc EXCEPT ![r] = "idle"]
    /\ kind' = [kind EXCEPT ![r] = ""]
    /\ arg' = [arg EXCEPT ![r] = NoArg]

\* The user_info of whichever request came first.
UserInfoShared(r) == arg[1].user

\* handlers::add_user: let user_info: User = user.into_inner();
UserInfo(r) == arg[r].user

\* POST /users arrives with a body that decodes.
StartAddUser(r) ==
    /\ pc[r] = "idle"
    /\ \E u \in Payloads :
          arg' = [arg EXCEPT ![r] = [user |-> u, id |-> 0]]
    /\ kind' = [kind EXCEPT ![r] = "add_user"]
    /\ pc' = [pc EXCEPT ![r] = "acquiring"]
    /\ out' = NoResponse
    /\ UNCHANGED <<store, next_id, created, max_size, in_use>>

\* GET /users arrives.
StartGetUsers(r) ==
    /\ pc[r] = "idle"
    /\ kind' = [kind EXCEPT ![r] = "get_users"]
    /\ pc' = [pc EXCEPT ![r] = "acquiring"]
    /\ out' = NoResponse
    /\ UNCHANGED <<store, next_id, created, max_size, in_use, arg>>

\* GET /users/{user_id} arrives with a numeric path segment.
StartGetUserById(r) ==
    /\ pc[r] = "idle"
    /\ \E id \in UserIds :
          arg' = [arg EXCEPT ![r] = [user |-> NoUser, id |-> id]]
    /\ kind' = [kind EXCEPT ![r] = "get_user_by_id"]
    /\ pc' = [pc EXCEPT ![r] = "acquiring"]
    /\ out' = NoResponse
    /\ UNCHANGED <<store, next_id, created, max_size, in_use>>

\* db_pool.get().await hands out a connection: one is free.
PoolGetOk(r) ==
    /\ pc[r] = "acquiring"
    /\ in_use < max_size
    /\ in_use' = in_use + 1
    /\ pc' = [pc EXCEPT ![r] = "preparing"]
    /\ out' = NoResponse
    /\ UNCHANGED <<store, next_id, created, max_size, kind, arg>>

\* db_pool.get().await fails (no connection can be made):
\* .map_err(MyError::PoolError)? returns the error response.
PoolGetErr(r) ==
    /\ pc[r] = "acquiring"
    /\ in_use < max_size
    /\ out' = error_response(kind[r], "pool_err", "PoolError")
    /\ End(r)
    /\ UNCHANGED <<store, next_id, created, max_size, in_use>>

\* client.prepare(..).await succeeds.
PrepareOk(r) ==
    /\ pc[r] = "preparing"
    /\ pc' = [pc EXCEPT ![r] = "querying"]
    /\ out' = NoResponse
    /\ UNCHANGED <<store, next_id, created, max_size, in_use, kind, arg>>

\* client.prepare(..).await fails: .unwrap() / .expect(..) panics.
PreparePanic(r) ==
    /\ pc[r] = "preparing"
    /\ out' = Aborted(kind[r], "prepare_err")
    /\ in_use' = Released(out', in_use)
    /\ End(r)
    /\ UNCHANGED <<store, next_id, created, max_size>>

\* client.query(..).await fails: Err(MyError::PGError(e)) reaches the handler.
QueryErr(r) ==
    /\ pc[r] = "querying"
    /\ out' = CASE kind[r] = "add_user" ->
                     handlers_add_user("query_err", RepoErr("PGError"))
                [] kind[r] = "get_users" ->
                     handlers_get_users("query_err", RepoErr("PGError"))
                [] OTHER ->
                     handlers_get_user_by_id("query_err", RepoErr("PGError"))
    /\ in_use' = Released(out', in_use)
    /\ End(r)
    /\ UNCHANGED <<store, next_id, created, max_size>>

\* The INSERT of db::add_user executes and the handler runs to its end.
AddUserQuery(r) ==
    /\ pc[r] = "querying"
    /\ kind[r] = "add_user"
    /\ Len(store) < MaxRows
    /\ LET row == InsertedRow(next_id, AddUserParams(UserInfo(r)))
           rows == Returning(row)
       IN /\ store' = Append(store, row)
          /\ created' = created \cup {[id |-> next_id, user |-> arg[r].user]}
          /\ out' = handlers_add_user(OutcomeOf(rows), db_add_user(rows))
    /\ next_id' = next_id + 1
    /\ in_use' = Released(out', in_use)
    /\ End(r)
    /\ UNCHANGED max_size

\* The SELECT of db::get_users executes and the handler runs to its end.
GetUsersQuery(r) ==
    /\ pc[r] = "querying"
    /\ kind[r] = "get_users"
    /\ LET rows == SelectAll(store)
       IN out' = handlers_get_users(OutcomeOf(rows), db_get_users(rows))
    /\ in_use' = Released(out', in_use)
    /\ End(r)
    /\ UNCHANGED <<store, next_id, created, max_size>>

\* The SELECT of db::get_user_by_id executes and the handler runs to its end.
GetUserByIdQuery(r) ==
    /\ pc[r] = "querying"
    /\ kind[r] = "get_user_by_id"
    /\ LET rows == SelectById(store, arg[r].id)
       IN out' = handlers_get_user_by_id(OutcomeOf(rows),
                                         db_get_user_by_id(rows))
    /\ in_use' = Released(out', in_use)
    /\ End(r)
    /\ UNCHANGED <<store, next_id, created, max_size>>

\* Another client of the database inserts a row with a NULL column.
ExternalInsert ==
    /\ Len(store) < MaxRows
    /\ \E cols \in ExternalRows :
          store' = Append(store, [id |-> next_id, cols |-> cols])
    /\ next_id' = next_id + 1
    /\ out' = NoResponse
    /\ UNCHANGED <<created, max_size, in_use, pc, kind, arg>>

Next ==
    \/ \E r \in Reqs : StartAddUser(r)
    \/ \E r \in Reqs : StartGetUsers(r)
    \/ \E r \in Reqs : StartGetUserById(r)
    \/ \E r \in Reqs : PoolGetOk(r)
    \/ \E r \in Reqs : PoolGetErr(r)
    \/ \E r \in Reqs : PrepareOk(r)
    \/ \E r \in Reqs : PreparePanic(r)
    \/ \E r \in Reqs : QueryErr(r)
    \/ \E r \in Reqs : AddUserQuery(r)
    \/ \E r \in Reqs : GetUsersQuery(r)
    \/ \E r \in Reqs : GetUserByIdQuery(r)
    \/ ExternalInsert

Spec == Init /\ [][Next]_vars

\* Acquisition is resolved once a connection is free: the pool's semaphore
\* wakes its waiters in turn.  Nothing makes the backend answer a prepare or a
\* query, so those steps carry no fairness.
FairSpec ==
    Spec /\ \A r \in Reqs : SF_vars(PoolGetOk(r) \/ PoolGetErr(r))

----------------------------------------------------------------------------
\* A get_user_by_id whose query is in flight against a table that has no
\* uniqueness constraint on id: the result set can hold several rows.

UnconstrainedRows ==
    { [id |-> i, cols |-> c] : i \in 1..2, c \in Payloads \cup ExternalRows }

RowSeqs(n) == UNION { [1..k -> UnconstrainedRows] : k \in 0..n }

InitRows ==
    /\ store \in RowSeqs(MaxRows)
    /\ next_id = Len(store) + 1
    /\ created = {}
    /\ max_size \in 1..MaxPoolSize
    /\ in_use = 1
    /\ pc = [r \in Reqs |-> IF r = 1 THEN "querying" ELSE "idle"]
    /\ kind = [r \in Reqs |-> IF r = 1 THEN "get_user_by_id" ELSE ""]
    /\ \E id \in UserIds :
          arg = [r \in Reqs |->
                    IF r = 1 THEN [user |-> NoUser, id |-> id] ELSE NoArg]
    /\ out = NoResponse

NextRows == \E r \in Reqs : GetUserByIdQuery(r)

SpecRows == InitRows /\ [][NextRows]_vars

----------------------------------------------------------------------------
\* Properties.

\* The step in which request r's repository call of handler k returns.
QueryEnds(r, k) ==
    /\ pc[r] = "querying"
    /\ kind[r] = k
    /\ pc'[r] = "idle"

HasId(tbl, id) == \E i \in 1..Len(tbl) : tbl[i].id = id

\* C1: GetUserByID with an identifier that no row of the store carries, on an
\* acquired connection and with a query that succeeded, returns NotFound,
\* never QueryError, whatever the store holds, and the handler answers 404.
C1_AbsentIdIsNotFound ==
    [][\A r \in Reqs :
          (/\ QueryEnds(r, "get_user_by_id")
           /\ out'.outcome = "ok"
           /\ ~HasId(store, arg[r].id))
          => (/\ out'.op = "get_user_by_id"
              /\ out'.err = "NotFound"
              /\ out'.status = 404)]_vars

C1_Witness ==
    /\ out.op = "get_user_by_id"
    /\ out.outcome = "ok"
    /\ out.status = 404
    /\ store # <<>>

\* C2: a POST /users whose CreateUser fails in the backend (prepare fails,
\* the query fails, or no row comes back) is answered with HTTP 500 carrying
\* the typed error; the request task is not aborted without a response.
C2_CreateFailureIs500 ==
    (out.op = "add_user" /\ out.outcome \in {"prepare_err", "query_err"})
        => (out.status = 500 /\ out.err \in {"PGError", "NotFound"})

\* C3: the number of borrowed connections equals the number of handler
\* invocations in flight past acquisition, on every exit path (response,
\* typed error, panic in the repository call); none stays borrowed after its
\* handler ended.
C3_BorrowedMatchesInFlight ==
    /\ in_use = Cardinality({r \in Reqs : pc[r] \in {"preparing", "querying"}})
    /\ (\A r \in Reqs : pc[r] \in {"idle", "acquiring"}) => in_use = 0

C3_Witness ==
    /\ out.status = 0
    /\ out.err = "panic"
    /\ \E r \in Reqs : pc[r] = "querying"
    /\ in_use = 1

\* C4: every request waiting in acquisition eventually leaves it, with a
\* connection or with a PoolError; none waits forever.
C4_AcquireTerminates ==
    \A r \in Reqs : (pc[r] = "acquiring") ~> (pc[r] # "acquiring")

\* C5: a successful CreateUser returns a record whose four fields equal the
\* input's, and adds exactly one row, with those values, to the store.
C5_CreateRoundTrip ==
    [][\A r \in Reqs :
          (QueryEnds(r, "add_user") /\ out'.outcome = "ok")
          => (/\ out'.status = 200
              /\ out'.items = <<arg[r].user>>
              /\ Len(store') = Len(store) + 1
              /\ SubSeq(store', 1, Len(store)) = store
              /\ \A f \in Fields :
                    store'[Len(store')].cols[f] = arg[r].user[f])]_vars

C5_Witness ==
    /\ out.op = "add_user"
    /\ out.status = 200
    /\ Len(store) = 2
    /\ out.items = <<FromRowRef(store[2].cols)>>

\* C6: GetUserByID with an identifier the store assigned to a created row
\* returns the one record stored under it, its four fields equal to what the
\* create that received the identifier stored.
C6_GetReturnsCreated ==
    [][\A r \in Reqs :
          (QueryEnds(r, "get_user_by_id") /\ out'.outcome # "query_err")
          => \A c \in created :
                c.id = arg[r].id
                => (/\ out'.status = 200
                    /\ out'.items = <<c.user>>
                    /\ Cardinality({i \in 1..Len(store) :
                                      store[i].id = c.id}) = 1)]_vars

C6_Witness ==
    /\ out.op = "get_user_by_id"
    /\ out.status = 200
    /\ Cardinality(created) = 2
    /\ \E c \in created : out.items = <<c.user>>

\* C7: a returned row that cannot be converted to a record makes the
\* operation fail with the typed MappingError, answered with HTTP 500; the
\* request is not aborted without a response.
C7_MappingFailureIs500 ==
    out.outcome = "mapping_err" => (out.status = 500 /\ out.err = "PGMError")

\* C8: ListUsers on an empty table, with an acquired connection and a
\* successful query, returns the empty sequence and GET /users answers 200
\* with an empty array; ListUsers never classifies zero rows as NotFound.
C8_EmptyListIsOk ==
    /\ out.op = "get_users" => out.err # "NotFound"
    /\ (out.op = "get_users" /\ out.outcome = "ok" /\ store = <<>>)
          => (out.status = 200 /\ out.body = "array" /\ out.items = <<>>)

C8_Witness ==
    /\ out.op = "get_users"
    /\ out.outcome = "ok"
    /\ out.status = 200
    /\ store = <<>>

\* C9: of two POST /users in flight together with different payloads, each
\* one whose statement executes succeeds and receives the record of its own
\* payload; the other request is left as it was, and every created
\* identifier has one row, holding what its create was given.
C9_ConcurrentCreates ==
    [][\A r \in Reqs : \A o \in Reqs \ {r} :
          (/\ QueryEnds(r, "add_user")
           /\ out'.outcome = "ok"
           /\ kind[o] = "add_user"
           /\ arg[o].user # arg[r].user)
          => (/\ out'.status = 200
              /\ out'.items = <<arg[r].user>>
              /\ pc'[o] = pc[o] /\ arg'[o] = arg[o]
              /\ \A c \in created' :
                    Cardinality({i \in 1..Len(store') :
                        /\ store'[i].id = c.id
                        /\ FromRowRef(store'[i].cols) = c.user}) = 1)]_vars

C9_Witness ==
    /\ out.op = "add_user"
    /\ out.status = 200
    /\ Len(store) = 1
    /\ \E r \in Reqs :
          /\ kind[r] = "add_user"
          /\ pc[r] = "querying"
          /\ out.items # <<arg[r].user>>
    /\ max_size = 2

\* C10 as claimed: when the query of GetUserByID returns more than one row,
\* the operation returns the first row of the result set.
C10_ReturnsFirstRow ==
    [][\A r \in Reqs :
          LET rows == SelectById(store, arg[r].id) IN
          (QueryEnds(r, "get_user_by_id") /\ Len(rows) > 1
                /\ out'.status = 200)
          => out'.items = <<FromRowRef(rows[1])>>]_vars

\* C10 as amended: when the query of GetUserByID returns more than one row,
\* the operation returns the last row of the result set in returned order.
C10_ReturnsLastRow ==
    [][\A r \in Reqs :
          LET rows == SelectById(store, arg[r].id) IN
          (QueryEnds(r, "get_user_by_id") /\ Len(rows) > 1
                /\ out'.status = 200)
          => out'.items = <<FromRowRef(rows[Len(rows)])>>]_vars

C10_Witness ==
    /\ out.op = "get_user_by_id"
    /\ out.status = 200
    /\ Len(store) = 2
    /\ store[1].id = store[2].id
    /\ store[1].cols # store[2].cols
    /\ out.items = <<FromRowRef(store[2].cols)>>

====
